---- MODULE Spec2Model ----
(***************************************************************************)
(* Model of easy-express-endpoints (src/src/Endpoint.ts): the registration *)
(* of endpoints on an express router and the per-request pipeline          *)
(* validators -> runAuthIfNeeded -> shared middlewares -> process          *)
(* (headers, execute, sendResponse).                                       *)
(***************************************************************************)
EXTENDS Integers, Sequences, FiniteSets, TLC

\* ------------------------------------------------------------------ bounds
MaxMiddlewares == 2
MaxRoutes == 2
NumRequests == 1

\* ------------------------------------------------------------ value domains
Endpoints == {"e1", "e2"}
Requests == 1..NumRequests
MwIds == {"A", "B"}
AuthIds == {"G1", "G2"}
NoAuth == "undefined"

\* enum ResponseType, plus one value outside the enum (a cast)
ResponseType == {"file", "stream", "json"}
ResponseTypeValues == ResponseType \cup {"xml"}

\* the concrete endpoint classes: the constructor of e1 may call
\* setResponseType with any value, e2 keeps the default response type
CtorResponseTypes(e) == IF e = "e1" THEN ResponseTypeValues ELSE {"json"}

\* getValidator(): the validation chains of an endpoint, one per field
ValidatorChain == <<"name", "id">>

\* what execute() may resolve to
Values ==
    { [kind |-> "string", v |-> "/tmp/report.pdf"],
      [kind |-> "string", v |-> "report.pdf"],
      [kind |-> "stream", v |-> "readable"],
      [kind |-> "object", v |-> "{id:5}"],
      [kind |-> "object", v |-> "circular"] }
NoValue == [kind |-> "none", v |-> "-"]

\* what headers() may resolve to; the first is the default of the base class
DefaultHeaders == [status |-> 200, headers |-> {}]
Envelopes == { DefaultHeaders, [status |-> 201, headers |-> {"x-total"}] }

\* ------------------------------------------------------------------- errors
HttpException(name, status, message, info) ==
    [name |-> name, status |-> status, message |-> message, info |-> info]

BadRequestExceptionFirstOnly(validationErrors) ==
    HttpException("BadRequestException", 400, "Bad request",
                  SubSeq(validationErrors, 1, 1))

BadRequestException(validationErrors) ==
    HttpException("BadRequestException", 400, "Bad request", validationErrors)

\* new Error(message); what user code (gate, middleware, hooks) throws or
\* rejects with is an Error object too, never a falsy value
Error(message) ==
    [name |-> "Error", status |-> 0, message |-> message, info |-> <<>>]

\* what the header hook and the handler of a concrete endpoint may throw or
\* reject with: a plain Error, or an HttpException of their own
HeadersErrors ==
    { Error("headers failed"),
      HttpException("HttpException", 404, "Not found", <<>>) }

ExecuteErrors ==
    { Error("execute failed"),
      HttpException("HttpException", 404, "Not found", <<>>) }

\* ---------------------------------------------------------------- variables
VARIABLES
    middlewares,     \* Endpoint.middlewares (static)
    authMiddleware,  \* Endpoint.authMiddleware (static)
    authRequired,    \* this.authRequired, per endpoint
    responseType,    \* this.responseType, per endpoint
    router,          \* the routes bound on the express router, in order
    listening,       \* the server accepts requests
    req,             \* per request: position in the pipeline and what it did
    crashed,         \* an exception escaped every handler of the process
    lastAuthCall     \* history: the latest registerAuthMiddleware call, and
                     \* whether a route was bound already when it was made

vars == <<middlewares, authMiddleware, authRequired, responseType, router,
          listening, req, crashed, lastAuthCall>>

config == <<middlewares, authMiddleware, authRequired, responseType, router,
            listening, lastAuthCall>>

\* RequestData: the body, query, params and headers of request r
RequestData(r) ==
    [body |-> <<"body", r>>, query |-> <<"query", r>>,
     params |-> <<"params", r>>, headers |-> <<"headers", r>>]

NoData == [body |-> <<>>, query |-> <<>>, params |-> <<>>, headers |-> <<>>]

Idle ==
    [ pc        |-> "idle",
      ep        |-> "-",
      ri        |-> 0,          \* route being dispatched
      hi        |-> 0,          \* handler of the route's stack to run next
      verrs     |-> <<>>,       \* validationResult(req).array()
      built     |-> 0,          \* RequestData objects process built
      data      |-> NoData,     \* const data of process
      hookArg   |-> NoData,     \* the argument headers was called with
      execArg   |-> NoData,     \* the argument execute was called with
      raised    |-> <<>>,       \* what headers or execute threw
      log       |-> <<>>,       \* the stages invoked so far, in order
      onward    |-> 0,          \* next() calls
      forwarded |-> <<>>,       \* next(err) calls
      ownReply  |-> "-",        \* the gate or middleware that replied itself
      writes    |-> <<>>,       \* body dispatches by sendResponse
      body      |-> NoValue,    \* what was dispatched as the body
      status    |-> 200,        \* res.statusCode
      headers   |-> {},         \* headers set on res
      entry     |-> DefaultHeaders, \* status and headers of res when
                                    \* process was entered
      envelope  |-> DefaultHeaders,
      result    |-> NoValue,
      fileSent  |-> <<>>,       \* arguments of the fileSent calls
      logged    |-> 0,          \* console.error calls
      relay     |-> "-",        \* the pipeline: running, ok, error
      source    |-> "-",        \* the source stream: open, ended, destroyed
      escaped   |-> <<>>,       \* errors thrown outside of any try block
      resState  |-> "open" ]

Init ==
    /\ middlewares = <<>>
    /\ authMiddleware = NoAuth
    /\ authRequired = [e \in Endpoints |-> TRUE]
    /\ responseType = [e \in Endpoints |-> "json"]
    /\ router = <<>>
    /\ listening = FALSE
    /\ req = [r \in Requests |-> Idle]
    /\ crashed = FALSE
    /\ lastAuthCall = [mw |-> NoAuth, late |-> FALSE]

\* ----------------------------------------------------------------- startup
Stage(stage, id) == [stage |-> stage, id |-> id]

Bound(e) == \E i \in 1..Len(router) : router[i].ep = e

RegisterMiddleware(mw) ==
    /\ ~listening
    /\ Len(middlewares) < MaxMiddlewares
    /\ middlewares' = Append(middlewares, mw)
    /\ UNCHANGED <<authMiddleware, authRequired, responseType, router,
                   listening, req, crashed, lastAuthCall>>

\* (mutant) the first auth middleware registered is kept
RegisterAuthMiddlewareKeepingFirst(mw) ==
    /\ ~listening
    /\ authMiddleware' = IF authMiddleware = NoAuth THEN mw ELSE authMiddleware
    /\ lastAuthCall' = [mw |-> mw, late |-> router # <<>>]
    /\ UNCHANGED <<middlewares, authRequired, responseType, router,
                   listening, req, crashed>>

RegisterAuthMiddleware(mw) ==
    /\ ~listening
    /\ authMiddleware' = mw
    /\ lastAuthCall' = [mw |-> mw, late |-> router # <<>>]
    /\ UNCHANGED <<middlewares, authRequired, responseType, router,
                   listening, req, crashed>>

\* setAuthRequired and setResponseType are protected: the constructor of the
\* concrete endpoint calls them, before the endpoint is set up
SetAuthRequired(e, value) ==
    /\ ~listening
    /\ ~Bound(e)
    /\ authRequired' = [authRequired EXCEPT ![e] = value]
    /\ UNCHANGED <<middlewares, authMiddleware, responseType, router,
                   listening, req, crashed, lastAuthCall>>

SetResponseType(e, value) ==
    /\ ~listening
    /\ ~Bound(e)
    /\ responseType' = [responseType EXCEPT ![e] = value]
    /\ UNCHANGED <<middlewares, authMiddleware, authRequired, router,
                   listening, req, crashed, lastAuthCall>>

\* (mutant) the shared middlewares are placed before the gate
HandlerListMiddlewareFirst(e) ==
    [i \in 1..Len(ValidatorChain) |-> Stage("validator", ValidatorChain[i])]
    \o [i \in 1..Len(middlewares) |-> Stage("middleware", middlewares[i])]
    \o <<Stage("runAuthIfNeeded", "-")>>
    \o <<Stage("process", "-")>>

\* the handler list setupEndpoint hands to router.get/post/delete/put
HandlerList(e) ==
    [i \in 1..Len(ValidatorChain) |-> Stage("validator", ValidatorChain[i])]
    \o <<Stage("runAuthIfNeeded", "-")>>
    \o [i \in 1..Len(middlewares) |-> Stage("middleware", middlewares[i])]
    \o <<Stage("process", "-")>>

SetupEndpoint(e) ==
    /\ ~listening
    /\ Len(router) < MaxRoutes
    /\ router' = Append(router, [ep |-> e, stack |-> HandlerList(e)])
    /\ UNCHANGED <<middlewares, authMiddleware, authRequired, responseType,
                   listening, req, crashed, lastAuthCall>>

Listen ==
    /\ ~listening
    /\ listening' = TRUE
    /\ UNCHANGED <<middlewares, authMiddleware, authRequired, responseType,
                   router, req, crashed, lastAuthCall>>

Startup ==
    \/ \E mw \in MwIds : RegisterMiddleware(mw)
    \/ \E mw \in AuthIds : RegisterAuthMiddleware(mw)
    \/ \E e \in Endpoints, v \in BOOLEAN : SetAuthRequired(e, v)
    \/ \E e \in Endpoints : \E v \in CtorResponseTypes(e) : SetResponseType(e, v)
    \/ \E e \in Endpoints : SetupEndpoint(e)
    \/ Listen

\* ------------------------------------------------- the router's dispatch
\* express: a request is handed to the first route bound to its method and
\* path, and walks that route's handler list
Matching(e, from) == {i \in from..Len(router) : router[i].ep = e}

FirstMatching(e, from) ==
    CHOOSE i \in Matching(e, from) : \A j \in Matching(e, from) : i <= j

Handler(q) == router[q.ri].stack[q.hi]

AtHandler(q, stage) == q.pc = "route" /\ Handler(q).stage = stage

Invoked(q, stage, id) == [q EXCEPT !.log = Append(@, Stage(stage, id))]

\* next(): the following handler of the route, else the next matching route,
\* else the router is left without a response (express answers 404)
Continue(q) ==
    IF q.hi < Len(router[q.ri].stack)
    THEN [q EXCEPT !.pc = "route", !.onward = @ + 1, !.hi = @ + 1]
    ELSE IF Matching(q.ep, q.ri + 1) # {}
         THEN [q EXCEPT !.pc = "route", !.onward = @ + 1,
                        !.ri = FirstMatching(q.ep, q.ri + 1), !.hi = 1]
         ELSE [q EXCEPT !.pc = "done", !.onward = @ + 1,
                        !.resState = "unhandled"]

\* next(err): the remaining handlers and routes are skipped and the error
\* goes to the error-handling middleware
Forward(q, from, err) ==
    [q EXCEPT !.pc = "done",
              !.forwarded = Append(@, [from |-> from, err |-> err])]

Arrive(r, e) ==
    /\ listening /\ ~crashed
    /\ req[r].pc = "idle"
    /\ Matching(e, 1) # {}
    /\ req' = [req EXCEPT ![r] =
                 [Idle EXCEPT !.pc = "route", !.ep = e,
                              !.ri = FirstMatching(e, 1), !.hi = 1]]
    /\ UNCHANGED <<config, crashed>>

\* the connection of a finished request is closed and its slot reused
Close(r) ==
    /\ ~crashed
    /\ req[r].pc = "done"
    /\ req' = [req EXCEPT ![r] = Idle]
    /\ UNCHANGED <<config, crashed>>

\* --------------------------------------------- validators, gate, middleware
FieldError(field) == [field |-> field, message |-> "Invalid value"]

\* an express-validator chain records its field error on the request and
\* always calls next()
RunValidator(r) ==
    LET q == req[r] IN
    /\ ~crashed
    /\ AtHandler(q, "validator")
    /\ \E valid \in BOOLEAN :
         req' = [req EXCEPT ![r] =
            Continue([Invoked(q, "validator", Handler(q).id) EXCEPT
                        !.verrs = IF valid THEN @
                                  ELSE Append(@, FieldError(Handler(q).id))])]
    /\ UNCHANGED <<config, crashed>>

\* what a gate or a middleware does with (req, res, next)
MwOutcomes == {"next", "error", "reply"}

MiddlewareCall(q, who, outcome) ==
    CASE outcome = "next"  -> Continue(q)
      [] outcome = "error" -> Forward(q, who, Error("rejected"))
      [] outcome = "reply" -> [q EXCEPT !.pc = "done", !.ownReply = who,
                                        !.resState = "sent"]

\* (mutant) the gate runs whenever one is registered
RunAuthIgnoringAuthRequired(r) ==
    LET q == Invoked(req[r], "runAuthIfNeeded", "-") IN
    /\ ~crashed
    /\ AtHandler(req[r], "runAuthIfNeeded")
    /\ IF authMiddleware # NoAuth
       THEN \E outcome \in MwOutcomes :
              req' = [req EXCEPT ![r] =
                 MiddlewareCall(Invoked(q, "authMiddleware", authMiddleware),
                                authMiddleware, outcome)]
       ELSE req' = [req EXCEPT ![r] = Continue(q)]
    /\ UNCHANGED <<config, crashed>>

\* (mutant) next() is called after the gate whatever the gate did
RunAuthThenNext(r) ==
    LET q == Invoked(req[r], "runAuthIfNeeded", "-") IN
    /\ ~crashed
    /\ AtHandler(req[r], "runAuthIfNeeded")
    /\ IF authRequired[q.ep] /\ authMiddleware # NoAuth
       THEN \E outcome \in MwOutcomes :
              LET gated == MiddlewareCall(
                              Invoked(q, "authMiddleware", authMiddleware),
                              authMiddleware, outcome)
              IN req' = [req EXCEPT ![r] =
                    IF outcome = "next" THEN gated
                    ELSE Continue([gated EXCEPT !.ri = q.ri, !.hi = q.hi])]
       ELSE req' = [req EXCEPT ![r] = Continue(q)]
    /\ UNCHANGED <<config, crashed>>

\* (mutant) a request is refused when auth is required and no gate exists
RunAuthRefusingWithoutGate(r) ==
    LET q == Invoked(req[r], "runAuthIfNeeded", "-") IN
    /\ ~crashed
    /\ AtHandler(req[r], "runAuthIfNeeded")
    /\ IF authRequired[q.ep] /\ authMiddleware # NoAuth
       THEN \E outcome \in MwOutcomes :
              req' = [req EXCEPT ![r] =
                 MiddlewareCall(Invoked(q, "authMiddleware", authMiddleware),
                                authMiddleware, outcome)]
       ELSE req' = [req EXCEPT ![r] =
              IF authRequired[q.ep]
              THEN Forward(q, "runAuthIfNeeded", Error("unauthorized"))
              ELSE Continue(q)]
    /\ UNCHANGED <<config, crashed>>

RunAuthIfNeeded(r) ==
    LET q == Invoked(req[r], "runAuthIfNeeded", "-") IN
    /\ ~crashed
    /\ AtHandler(req[r], "runAuthIfNeeded")
    /\ IF authRequired[q.ep] /\ authMiddleware # NoAuth
       THEN \E outcome \in MwOutcomes :
              req' = [req EXCEPT ![r] =
                 MiddlewareCall(Invoked(q, "authMiddleware", authMiddleware),
                                authMiddleware, outcome)]
       ELSE req' = [req EXCEPT ![r] = Continue(q)]
    /\ UNCHANGED <<config, crashed>>

RunMiddleware(r) ==
    LET q == req[r] IN
    /\ ~crashed
    /\ AtHandler(q, "middleware")
    /\ \E outcome \in MwOutcomes :
         req' = [req EXCEPT ![r] =
            MiddlewareCall(Invoked(q, "middleware", Handler(q).id),
                           Handler(q).id, outcome)]
    /\ UNCHANGED <<config, crashed>>

\* --------------------------------------------------------------- process
isString(x) == x.kind = "string"

isReadableStream(x) == x.kind = "stream"

\* res.sendFile throws a TypeError, before it writes, for a path that is
\* not absolute; res.send throws for a value JSON.stringify rejects
IsAbsolute(x) == x.v = "/tmp/report.pdf"

Serializable(x) == x.v # "circular"

Returned(q) == [q |-> q, thrown |-> <<>>]

Thrown(q, err) == [q |-> q, thrown |-> <<err>>]

Wrote(q, call, data, pc) ==
    [q EXCEPT !.writes = Append(@, call), !.body = data, !.pc = pc]

\* stream.pipeline(data, passThrough, cb) and passThrough.pipe(res): the
\* relay from the source is under way
Piped(q, data) ==
    [Wrote(q, "pipe", data, "piping") EXCEPT
        !.relay = "running", !.source = "open"]

\* (mutant) a FILE result that is no string is dropped without an error
SendResponseSilentMismatch(q0, rt, data) ==
    LET q == Invoked(q0, "sendResponse", "-") IN
    CASE rt = "json" ->
           IF Serializable(data)
           THEN Returned([Wrote(q, "send", data, "done") EXCEPT !.resState = "sent"])
           ELSE Thrown(q, Error("Converting circular structure to JSON"))
      [] rt = "file" ->
           IF ~isString(data)
           THEN Returned([q EXCEPT !.pc = "done"])
           ELSE IF ~IsAbsolute(data)
                THEN Thrown(q, Error("path must be absolute"))
                ELSE Returned(Wrote(q, "sendFile", data, "sendingFile"))
      [] rt = "stream" ->
           IF ~isReadableStream(data)
           THEN Thrown(q, Error("Expected data to be a readable stream"))
           ELSE Returned(Piped(q, data))
      [] OTHER -> Thrown(q, Error("not implemented"))

\* (mutant) the STREAM branch pipes before it checks the result
SendResponsePipeBeforeCheck(q0, rt, data) ==
    LET q == Invoked(q0, "sendResponse", "-") IN
    CASE rt = "json" ->
           IF Serializable(data)
           THEN Returned([Wrote(q, "send", data, "done") EXCEPT !.resState = "sent"])
           ELSE Thrown(q, Error("Converting circular structure to JSON"))
      [] rt = "file" ->
           IF ~isString(data)
           THEN Thrown(q, Error("Expected data to be a string"))
           ELSE IF ~IsAbsolute(data)
                THEN Thrown(q, Error("path must be absolute"))
                ELSE Returned(Wrote(q, "sendFile", data, "sendingFile"))
      [] rt = "stream" ->
           IF ~isReadableStream(data)
           THEN Thrown(Piped(q, data),
                       Error("Expected data to be a readable stream"))
           ELSE Returned(Piped(q, data))
      [] OTHER -> Thrown(q, Error("not implemented"))

\* sendResponse(data, res), for this.responseType = rt
SendResponse(q0, rt, data) ==
    LET q == Invoked(q0, "sendResponse", "-") IN
    CASE rt = "json" ->
           IF Serializable(data)
           THEN Returned([Wrote(q, "send", data, "done") EXCEPT !.resState = "sent"])
           ELSE Thrown(q, Error("Converting circular structure to JSON"))
      [] rt = "file" ->
           IF ~isString(data)
           THEN Thrown(q, Error("Expected data to be a string"))
           ELSE IF ~IsAbsolute(data)
                THEN Thrown(q, Error("path must be absolute"))
                ELSE Returned(Wrote(q, "sendFile", data, "sendingFile"))
      [] rt = "stream" ->
           IF ~isReadableStream(data)
           THEN Thrown(q, Error("Expected data to be a readable stream"))
           ELSE Returned(Piped(q, data))
      [] OTHER -> Thrown(q, Error("not implemented"))

\* setHeaders(res, status, headers)
SetHeaders(q, envelope) ==
    [Invoked(q, "setHeaders", "-") EXCEPT
        !.status = envelope.status,
        !.headers = @ \cup envelope.headers,
        !.envelope = envelope]

\* (mutant) the catch block drops the error: next()
CatchWithoutError(q, err) == Continue(q)

\* (mutant) the catch block sets the status of the response to 500
CatchSettingStatus(q, err) ==
    Forward([q EXCEPT !.status = 500], "process", err)

\* (mutant) the catch block wraps what it caught in an HttpException
CatchWrapping(q, err) ==
    Forward(q, "process",
            HttpException("HttpException", 500, err.message, <<err>>))

\* the catch block of process: next(err)
Catch(q, err) == Forward(q, "process", err)

\* process(req, res, next) up to its first await: the validation verdict,
\* RequestData, and the call of this.headers(data)
Process(r) ==
    LET q == [Invoked(req[r], "process", "-") EXCEPT
                 !.entry = [status |-> req[r].status,
                            headers |-> req[r].headers]]
    IN
    /\ ~crashed
    /\ AtHandler(req[r], "process")
    /\ req' = [req EXCEPT ![r] =
         IF Len(q.verrs) > 0
         THEN Catch(q, BadRequestException(q.verrs))
         ELSE [Invoked(q, "headers", "-") EXCEPT
                  !.built = @ + 1,
                  !.data = RequestData(r),
                  !.hookArg = RequestData(r),
                  !.pc = "awaitHeaders"]]
    /\ UNCHANGED <<config, crashed>>

\* (mutant) RequestData is kept in a field of the endpoint instance, which a
\* request on the same endpoint overwrites during the await
HeadersSettledSharedData(r) ==
    LET q == req[r] IN
    /\ ~crashed
    /\ q.pc = "awaitHeaders"
    /\ \/ \E envelope \in Envelopes :
          \E s \in DOMAIN req :
            /\ req[s].ep = q.ep /\ req[s].built > 0
            /\ req' = [req EXCEPT ![r] =
                 [Invoked(SetHeaders(q, envelope), "execute", "-") EXCEPT
                     !.execArg = req[s].data,
                     !.pc = "awaitExecute"]]
       \/ \E err \in HeadersErrors :
            req' = [req EXCEPT ![r] =
               Catch([q EXCEPT !.raised = <<[by |-> "headers", err |-> err]>>],
                     err)]
    /\ UNCHANGED <<config, crashed>>

\* (mutant) execute is called before the result of headers is applied
HeadersSettledExecuteFirst(r) ==
    LET q == req[r] IN
    /\ ~crashed
    /\ q.pc = "awaitHeaders"
    /\ \/ \E envelope \in Envelopes :
            req' = [req EXCEPT ![r] =
               [SetHeaders(Invoked(q, "execute", "-"), envelope) EXCEPT
                   !.execArg = q.data,
                   !.pc = "awaitExecute"]]
       \/ \E err \in HeadersErrors :
            req' = [req EXCEPT ![r] =
               Catch([q EXCEPT !.raised = <<[by |-> "headers", err |-> err]>>],
                     err)]
    /\ UNCHANGED <<config, crashed>>

\* the promise of headers(data) settles: setHeaders and the call of
\* this.execute(data), or the catch block
HeadersSettled(r) ==
    LET q == req[r] IN
    /\ ~crashed
    /\ q.pc = "awaitHeaders"
    /\ \/ \E envelope \in Envelopes :
            req' = [req EXCEPT ![r] =
               [Invoked(SetHeaders(q, envelope), "execute", "-") EXCEPT
                   !.execArg = q.data,
                   !.pc = "awaitExecute"]]
       \/ \E err \in HeadersErrors :
            req' = [req EXCEPT ![r] =
               Catch([q EXCEPT !.raised = <<[by |-> "headers", err |-> err]>>],
                     err)]
    /\ UNCHANGED <<config, crashed>>

\* the promise of execute(data) settles: sendResponse, or the catch block
ExecuteSettled(r) ==
    LET q == req[r] IN
    /\ ~crashed
    /\ q.pc = "awaitExecute"
    /\ \/ \E result \in Values :
            LET sent == SendResponse([q EXCEPT !.result = result],
                                     responseType[q.ep], result)
            IN req' = [req EXCEPT ![r] =
                 IF sent.thrown # <<>>
                 THEN Catch(sent.q, sent.thrown[1])
                 ELSE sent.q]
       \/ \E err \in ExecuteErrors :
            req' = [req EXCEPT ![r] =
               Catch([q EXCEPT !.raised = <<[by |-> "execute", err |-> err]>>],
                     err)]
    /\ UNCHANGED <<config, crashed>>

\* (mutant) the send error is also handed to next
FileSendCompleteForwarding(r) ==
    LET q == req[r] IN
    /\ ~crashed
    /\ q.pc = "sendingFile"
    /\ \E err \in BOOLEAN :
         req' = [req EXCEPT ![r] =
            LET done == [q EXCEPT !.logged = IF err THEN @ + 1 ELSE @,
                                  !.fileSent = Append(@, q.result.v),
                                  !.resState = IF err THEN "failed" ELSE "sent",
                                  !.pc = "done"]
            IN IF err THEN Forward(done, "process", Error("send failed")) ELSE done]
    /\ UNCHANGED <<config, crashed>>

\* (mutant) the callback returns after logging a send error
FileSendCompleteReturnOnError(r) ==
    LET q == req[r] IN
    /\ ~crashed
    /\ q.pc = "sendingFile"
    /\ \E err \in BOOLEAN :
         req' = [req EXCEPT ![r] =
            [q EXCEPT !.logged = IF err THEN @ + 1 ELSE @,
                      !.fileSent = IF err THEN @ ELSE Append(@, q.result.v),
                      !.resState = IF err THEN "failed" ELSE "sent",
                      !.pc = "done"]]
    /\ UNCHANGED <<config, crashed>>

\* the callback of res.sendFile: the transfer ended, with or without error
FileSendComplete(r) ==
    LET q == req[r] IN
    /\ ~crashed
    /\ q.pc = "sendingFile"
    /\ \E err \in BOOLEAN :
         req' = [req EXCEPT ![r] =
            [q EXCEPT !.logged = IF err THEN @ + 1 ELSE @,
                      !.fileSent = Append(@, q.result.v),
                      !.resState = IF err THEN "failed" ELSE "sent",
                      !.pc = "done"]]
    /\ UNCHANGED <<config, crashed>>

\* (mutant) the callback hands the error to next instead of throwing
StreamRelayCompleteForwarding(r) ==
    LET q == req[r] IN
    /\ ~crashed
    /\ q.pc = "piping"
    /\ \E err \in BOOLEAN :
         req' = [req EXCEPT ![r] =
            LET done == [q EXCEPT
                   !.logged = IF err THEN @ + 2 ELSE @,
                   !.relay = IF err THEN "error" ELSE "ok",
                   !.source = IF err THEN "destroyed" ELSE "ended",
                   !.resState = IF @ = "closed" THEN @
                                ELSE IF err THEN "failed" ELSE "sent",
                   !.pc = "done"]
            IN IF err
               THEN Forward(done, "process",
                            Error("Error writing stream in image endpoint"))
               ELSE done]
    /\ UNCHANGED <<config, crashed>>

\* the callback of stream.pipeline(data, passThrough, cb): the relay from
\* the source into the pass-through ended; with an error (the pipeline has
\* destroyed its streams) it logs twice and throws, outside of any try
\* block, which ends the process
StreamRelayComplete(r) ==
    LET q == req[r] IN
    /\ ~crashed
    /\ q.pc = "piping"
    /\ \E err \in BOOLEAN :
         /\ req' = [req EXCEPT ![r] =
              [q EXCEPT
                 !.logged = IF err THEN @ + 2 ELSE @,
                 !.relay = IF err THEN "error" ELSE "ok",
                 !.source = IF err THEN "destroyed" ELSE "ended",
                 !.escaped = IF err
                    THEN Append(@, Error("Error writing stream in image endpoint"))
                    ELSE @,
                 !.resState = IF @ = "closed" THEN @
                              ELSE IF err THEN "failed" ELSE "sent",
                 !.pc = "done"]]
         /\ crashed' = err
    /\ UNCHANGED config

\* res fails or closes early: passThrough.pipe(res) is outside the pipeline,
\* which is not told; its callback is called only if the source still ends
\* or fails by itself, and until then the source stays open
DownstreamClosed(r) ==
    LET q == req[r] IN
    /\ ~crashed
    /\ q.pc = "piping"
    /\ q.resState = "open"
    /\ req' = [req EXCEPT ![r] = [q EXCEPT !.resState = "closed"]]
    /\ UNCHANGED <<config, crashed>>

Serve ==
    \/ \E r \in DOMAIN req, e \in Endpoints : Arrive(r, e)
    \/ \E r \in DOMAIN req : RunValidator(r)
    \/ \E r \in DOMAIN req : RunAuthIfNeeded(r)
    \/ \E r \in DOMAIN req : RunMiddleware(r)
    \/ \E r \in DOMAIN req : Process(r)
    \/ \E r \in DOMAIN req : HeadersSettled(r)
    \/ \E r \in DOMAIN req : ExecuteSettled(r)
    \/ \E r \in DOMAIN req : FileSendComplete(r)
    \/ \E r \in DOMAIN req : StreamRelayComplete(r)
    \/ \E r \in DOMAIN req : DownstreamClosed(r)
    \/ \E r \in DOMAIN req : Close(r)

Next == Startup \/ Serve

Spec == Init /\ [][Next]_vars

\* -------------------------------------------- requests in flight together
\* one more request than Spec serves, on a server that has started: the
\* shared middleware A and the gate G1 are registered, e1 (auth required,
\* any response type) and e2 (no auth, JSON) are set up, in this order
ConcurrentRequests == 1..(NumRequests + 1)

InitConcurrent ==
    /\ middlewares = <<"A">>
    /\ authMiddleware = "G1"
    /\ authRequired = [e \in Endpoints |-> e = "e1"]
    /\ \E rt \in ResponseTypeValues :
          responseType = [e \in Endpoints |-> IF e = "e1" THEN rt ELSE "json"]
    /\ router = <<[ep |-> "e1", stack |-> HandlerList("e1")],
                  [ep |-> "e2", stack |-> HandlerList("e2")]>>
    /\ listening = TRUE
    /\ req = [r \in ConcurrentRequests |-> Idle]
    /\ crashed = FALSE
    /\ lastAuthCall = [mw |-> "G1", late |-> FALSE]

SpecConcurrent == InitConcurrent /\ [][Serve]_vars

\* ------------------------------------------------------ reading the log
Ran(q, stage) == \E i \in DOMAIN q.log : q.log[i].stage = stage

Count(q, stage) == Cardinality({i \in DOMAIN q.log : q.log[i].stage = stage})

\* the errors process handed to next
ProcessForwards(q) ==
    Cardinality({i \in DOMAIN q.forwarded : q.forwarded[i].from = "process"})

\* terminal actions of the engine: body dispatches plus forwarded errors
Terminals(q) == Len(q.writes) + ProcessForwards(q)

\* ---------------------------------------------------------------- claims

\* C1: for a request whose validation result holds one or more field
\* errors, neither the auth middleware, nor a shared middleware, nor the
\* handler (execute) is executed.
C1_ValidationErrorsStopThePipeline ==
    \A r \in DOMAIN req :
        Len(req[r].verrs) >= 1 =>
            /\ ~Ran(req[r], "authMiddleware")
            /\ ~Ran(req[r], "middleware")
            /\ ~Ran(req[r], "execute")

\* C2: a request that reaches process with n >= 1 validation errors has
\* exactly one error forwarded via next, a BadRequestException of status 400
\* whose info is the whole validation error sequence in order, and neither
\* headers, execute nor sendResponse runs.
C2_BadRequestCarriesAllErrors ==
    \A r \in DOMAIN req :
        LET q == req[r] IN
        (Ran(q, "process") /\ Len(q.verrs) >= 1) =>
            /\ Len(q.forwarded) = 1
            /\ q.forwarded[1].from = "process"
            /\ q.forwarded[1].err.name = "BadRequestException"
            /\ q.forwarded[1].err.status = 400
            /\ q.forwarded[1].err.info = q.verrs
            /\ ~Ran(q, "headers") /\ ~Ran(q, "execute")
            /\ ~Ran(q, "sendResponse")
            /\ q.writes = <<>>

C2_Witness ==
    \E r \in DOMAIN req :
        /\ Ran(req[r], "process")
        /\ req[r].verrs = <<FieldError("name"), FieldError("id")>>
        /\ Len(req[r].forwarded) = 1

\* C3: per request the body dispatches (res.send, res.sendFile, pipe to res)
\* plus the errors process forwards through next are at most one.
C3_AtMostOneTerminalAction ==
    \A r \in DOMAIN req : Terminals(req[r]) <= 1

C3_Witness ==
    \E r \in DOMAIN req :
        /\ req[r].writes = <<"sendFile">>
        /\ req[r].resState = "failed"
        /\ req[r].logged = 1
        /\ ProcessForwards(req[r]) = 0

\* the promises of the header hook and of the handler settle, and the event
\* loop then runs the continuation of process
Fairness ==
    \A r \in Requests :
        WF_vars(HeadersSettled(r)) /\ WF_vars(ExecuteSettled(r))

FairSpec == Spec /\ Fairness

Awaiting(q) == q.pc \in {"awaitHeaders", "awaitExecute"}

IsMiddleware(entry) == entry.stage = "middleware"

MiddlewaresRun(q) ==
    LET ran == SelectSeq(q.log, IsMiddleware)
    IN [i \in 1..Len(ran) |-> ran[i].id]

CountId(q, stage, id) ==
    Cardinality({i \in DOMAIN q.log : q.log[i] = Stage(stage, id)})

Registered(id) ==
    Cardinality({i \in DOMAIN middlewares : middlewares[i] = id})

Last(seq) == seq[Len(seq)]

IsPrefix(a, b) == Len(a) <= Len(b) /\ SubSeq(b, 1, Len(a)) = a

\* C5: whatever the order of the registerMiddleware and setupEndpoint calls
\* before the first request, a request that reaches the handler stage has
\* passed through every middleware of the registry, once each, in
\* registration order.
C5_EveryEndpointRunsTheWholeRegistry ==
    \A r \in DOMAIN req :
        Ran(req[r], "process") => MiddlewaresRun(req[r]) = middlewares

\* C6: on an endpoint with authRequired = false the auth middleware is never
\* invoked, registered or not, and runAuthIfNeeded calls next() exactly once
\* and does nothing else.
C6_NoGateWhenAuthNotRequired ==
    \A r \in DOMAIN req :
        LET q == req[r] IN
        (q.pc # "idle" /\ ~authRequired[q.ep]) =>
            /\ ~Ran(q, "authMiddleware")
            /\ (q.log # <<>> /\ Last(q.log).stage = "runAuthIfNeeded") =>
                  /\ q.pc = "route"
                  /\ q.onward = Count(q, "validator") + 1
                  /\ q.hi = Len(ValidatorChain) + 2
                  /\ q.forwarded = <<>> /\ q.ownReply = "-"
                  /\ q.writes = <<>> /\ q.resState = "open"
                  /\ q.status = 200 /\ q.headers = {}

C6_Witness ==
    \E r \in DOMAIN req :
        /\ req[r].pc # "idle"
        /\ ~authRequired[req[r].ep]
        /\ authMiddleware # NoAuth
        /\ Ran(req[r], "runAuthIfNeeded")
        /\ Ran(req[r], "execute")

\* a gate or a shared middleware short-circuited: it forwarded an error or
\* replied itself without calling next
Denied(q) ==
    \/ q.ownReply # "-"
    \/ \E i \in DOMAIN q.forwarded : q.forwarded[i].from # "process"

Denier(q) == IF q.ownReply # "-" THEN q.ownReply ELSE q.forwarded[1].from

\* C7: once the gate (authRequired = true, a gate registered) or a shared
\* middleware denies, by an error or by its own reply, no later middleware,
\* header hook or handler runs and the engine dispatches no body.
C7_DenialStopsThePipeline ==
    \A r \in DOMAIN req :
        LET q == req[r] IN
        Denied(q) =>
            /\ q.pc = "done"
            /\ Last(q.log).stage \in {"authMiddleware", "middleware"}
            /\ Last(q.log).id = Denier(q)
            /\ Len(q.forwarded) + (IF q.ownReply # "-" THEN 1 ELSE 0) = 1
            /\ ~Ran(q, "process") /\ ~Ran(q, "headers")
            /\ ~Ran(q, "execute") /\ ~Ran(q, "sendResponse")
            /\ q.writes = <<>>

C7_Witness ==
    \E r \in DOMAIN req :
        /\ Denied(req[r])
        /\ authRequired[req[r].ep]
        /\ Last(req[r].log).stage = "authMiddleware"
        /\ Len(router[req[r].ri].stack) = Len(ValidatorChain) + 4

\* the stages of a request nothing short-circuits, on a route bound when the
\* registry held its first k middlewares
ExpectedStages(q, k) ==
    [i \in 1..Len(ValidatorChain) |-> Stage("validator", ValidatorChain[i])]
    \o <<Stage("runAuthIfNeeded", "-")>>
    \o (IF authRequired[q.ep] /\ authMiddleware # NoAuth
        THEN <<Stage("authMiddleware", authMiddleware)>> ELSE <<>>)
    \o [i \in 1..k |-> Stage("middleware", middlewares[i])]
    \o <<Stage("process", "-"), Stage("headers", "-"), Stage("setHeaders", "-"),
         Stage("execute", "-"), Stage("sendResponse", "-")>>

\* C8: while nothing short-circuits, the stages start in the order
\* validation, gate, shared middleware in registration order, header hook,
\* handler, dispatch, each once; the handler is not invoked before the
\* header hook has settled and its result is applied.
C8_StagesRunInOrder ==
    \A r \in DOMAIN req :
        LET q == req[r] IN
        (q.pc # "idle" /\ q.forwarded = <<>> /\ q.ownReply = "-") =>
            \E k \in 0..Len(middlewares) :
                LET all == ExpectedStages(q, k) IN
                /\ IsPrefix(q.log, all)
                /\ q.pc = "awaitHeaders" => Len(q.log) = Len(all) - 3
                /\ q.pc = "awaitExecute" => Len(q.log) = Len(all) - 1
                /\ q.writes # <<>> => q.log = all

C8_Witness ==
    \E r \in DOMAIN req :
        /\ req[r].writes # <<>>
        /\ middlewares = <<"A", "B">>
        /\ authMiddleware # NoAuth /\ authRequired[req[r].ep]
        /\ req[r].log = ExpectedStages(req[r], 2)

C10_FileSentOncePerTransfer ==
    \A r \in DOMAIN req :
        LET q == req[r] IN
        (q.pc # "idle" /\ responseType[q.ep] = "file" /\ isString(q.result)) =>
            /\ q.pc = "sendingFile" => q.fileSent = <<>>
            /\ (q.writes # <<>> /\ q.pc = "done") =>
                  /\ q.fileSent = <<q.result.v>>
                  /\ q.forwarded = <<>>
                  /\ q.logged = (IF q.resState = "failed" THEN 1 ELSE 0)
            /\ q.writes = <<>> => q.fileSent = <<>>

C10_Witness ==
    \E r \in DOMAIN req :
        /\ req[r].pc = "done"
        /\ responseType[req[r].ep] = "file"
        /\ req[r].resState = "failed"
        /\ req[r].fileSent = <<"/tmp/report.pdf">>
        /\ req[r].logged = 1

\* the result of the handler does not fit the response type of the endpoint
Mismatch(q) ==
    \/ responseType[q.ep] = "file" /\ ~isString(q.result)
    \/ responseType[q.ep] = "stream" /\ ~isReadableStream(q.result)
    \/ responseType[q.ep] \notin ResponseType

\* C11: when the result of the handler does not fit the response type (no
\* string for FILE, no readable stream for STREAM) or the response type is
\* none of JSON, FILE, STREAM, sendResponse throws, process forwards that
\* error once, nothing is written to the response and fileSent is not called.
C11_MismatchIsForwardedUnwritten ==
    \A r \in DOMAIN req :
        LET q == req[r] IN
        (q.pc # "idle" /\ Ran(q, "sendResponse") /\ Mismatch(q)) =>
            /\ q.pc = "done"
            /\ Len(q.forwarded) = 1
            /\ q.forwarded[1].from = "process"
            /\ q.forwarded[1].err.message \in
                  {"Expected data to be a string",
                   "Expected data to be a readable stream", "not implemented"}
            /\ q.writes = <<>>
            /\ q.fileSent = <<>>
            /\ q.resState = "open"

C11_Witness ==
    \E r \in DOMAIN req :
        /\ req[r].pc = "done"
        /\ Ran(req[r], "sendResponse")
        /\ responseType[req[r].ep] = "stream"
        /\ req[r].result.kind = "string"
        /\ ProcessForwards(req[r]) = 1
        /\ req[r].writes = <<>>

\* C12: with authRequired = true and no auth middleware registered,
\* runAuthIfNeeded calls next() once, without an error and without running
\* a gate, and the request goes on to the shared middlewares and process.
C12_NoGateRegisteredLetsRequestsPass ==
    \A r \in DOMAIN req :
        LET q == req[r] IN
        (q.pc # "idle" /\ Ran(q, "runAuthIfNeeded")
           /\ authRequired[q.ep] /\ authMiddleware = NoAuth) =>
            /\ Count(q, "runAuthIfNeeded") = 1
            /\ ~Ran(q, "authMiddleware")
            /\ \A i \in DOMAIN q.forwarded :
                  q.forwarded[i].from \in MwIds \cup {"process"}
            /\ q.ownReply \in MwIds \cup {"-"}
            /\ q.onward = Count(q, "validator") + 1 + Count(q, "middleware")
                            - (IF Denied(q) THEN 1 ELSE 0)
            /\ Last(q.log).stage = "runAuthIfNeeded" =>
                  /\ q.pc = "route"
                  /\ Handler(q).stage \in {"middleware", "process"}

C12_Witness ==
    \E r \in DOMAIN req :
        /\ req[r].pc # "idle"
        /\ authRequired[req[r].ep] /\ authMiddleware = NoAuth
        /\ Ran(req[r], "runAuthIfNeeded")
        /\ Ran(req[r], "middleware")
        /\ Ran(req[r], "execute")

\* C13: after any sequence of registerAuthMiddleware calls the registry
\* holds one auth middleware, that of the latest call, and a request to an
\* endpoint with authRequired = true invokes that one, once, also when the
\* endpoint was set up on the router before that call.
C13_LatestAuthMiddlewareGatesEveryEndpoint ==
    /\ authMiddleware = lastAuthCall.mw
    /\ authMiddleware \in AuthIds \cup {NoAuth}
    /\ \A r \in DOMAIN req :
          LET q == req[r] IN
          (q.pc # "idle" /\ Ran(q, "runAuthIfNeeded") /\ authRequired[q.ep]
             /\ lastAuthCall.mw # NoAuth) =>
              /\ Count(q, "authMiddleware") = 1
              /\ CountId(q, "authMiddleware", lastAuthCall.mw) = 1

C13_Witness ==
    \E r \in DOMAIN req :
        /\ req[r].pc # "idle"
        /\ authRequired[req[r].ep]
        /\ lastAuthCall.mw = "G2"
        /\ lastAuthCall.late /\ req[r].ri = 1
        /\ CountId(req[r], "authMiddleware", "G2") = 1

\* stage a is in the log of q, and before every invocation of stage b
Before(q, a, b) ==
    /\ Ran(q, a)
    /\ \A i, j \in DOMAIN q.log :
          (q.log[i].stage = a /\ q.log[j].stage = b) => i < j

\* C14: in a request whose handler (execute) runs, RequestData is built
\* once, from the body, query, params and headers of that request; the
\* header hook is called with it; the status and headers it returns are
\* applied before execute is called; execute receives the same
\* RequestData; nothing is written before status and headers are applied.
C14_HeadersAppliedBeforeTheHandler ==
    \A r \in DOMAIN req :
        LET q == req[r] IN
        /\ Ran(q, "execute") =>
              /\ q.built = 1
              /\ q.data = RequestData(r)
              /\ q.hookArg = q.data
              /\ q.execArg = q.data
              /\ Count(q, "headers") = 1 /\ Count(q, "setHeaders") = 1
              /\ Before(q, "headers", "setHeaders")
              /\ Before(q, "setHeaders", "execute")
              /\ q.status = q.envelope.status
              /\ q.envelope.headers \subseteq q.headers
        /\ q.writes # <<>> => Before(q, "setHeaders", "sendResponse")

C14_Witness ==
    \E r \in DOMAIN req :
        /\ req[r].pc = "awaitExecute"
        /\ req[r].status = 201
        /\ req[r].headers = {"x-total"}
        /\ req[r].execArg = RequestData(r)

\* C15: when the header hook or the handler throws or rejects, process
\* forwards that very error value, not wrapped and not changed, once through
\* next; sendResponse is not called and nothing is written; when the header
\* hook failed, status and headers are not applied and execute is not called.
C15_HookErrorsAreForwardedUnchanged ==
    \A r \in DOMAIN req :
        LET q == req[r] IN
        q.raised # <<>> =>
            /\ q.pc = "done"
            /\ q.forwarded = <<[from |-> "process", err |-> q.raised[1].err]>>
            /\ ~Ran(q, "sendResponse")
            /\ q.writes = <<>> /\ q.resState = "open"
            /\ q.raised[1].by = "headers" =>
                  ~Ran(q, "setHeaders") /\ ~Ran(q, "execute")
            /\ q.raised[1].by = "execute" => Count(q, "execute") = 1

C15_Witness ==
    \E r \in DOMAIN req :
        /\ req[r].raised = <<[by |-> "headers",
                              err |-> HttpException("HttpException", 404,
                                                    "Not found", <<>>)]>>
        /\ Len(req[r].forwarded) = 1
        /\ req[r].forwarded[1].err.status = 404

\* C16: when the relay of a STREAM response fails after the dispatch has
\* begun, the completion callback logs and throws the stream-handling
\* error; no second write to the response is attempted and next is not
\* called.
C16_RelayFailureIsLoggedAndThrown ==
    \A r \in DOMAIN req :
        LET q == req[r] IN
        q.relay = "error" =>
            /\ q.logged = 2
            /\ q.escaped = <<Error("Error writing stream in image endpoint")>>
            /\ q.writes = <<"pipe">>
            /\ q.forwarded = <<>>
            /\ q.onward = Count(q, "validator") + 1 + Count(q, "middleware")
            /\ q.fileSent = <<>>

C16_Witness ==
    \E r \in DOMAIN req :
        /\ req[r].relay = "error"
        /\ req[r].source = "destroyed"
        /\ req[r].logged = 2
        /\ crashed

\* C17: when the write to the response fails or the response closes early
\* during a STREAM dispatch, the relay notices: once it has ended, its
\* callback has been called with an error and the source is destroyed.
C17_DownstreamFailureEndsTheRelay ==
    \A r \in DOMAIN req :
        LET q == req[r] IN
        (q.resState = "closed" /\ q.pc = "done") =>
            q.relay = "error" /\ q.source = "destroyed"

\* what request r may hold: only what was built from, returned for and
\* dispatched to itself
OwnData(r) ==
    LET q == req[r] IN
    /\ q.data \in {NoData, RequestData(r)}
    /\ q.hookArg = q.data
    /\ q.execArg \in {NoData, q.data}
    /\ Ran(q, "execute") => q.execArg = RequestData(r)
    /\ Ran(q, "setHeaders") =>
          q.status = q.envelope.status /\ q.headers = q.envelope.headers
    /\ ~Ran(q, "setHeaders") => q.status = 200 /\ q.headers = {}
    /\ q.writes # <<>> => q.body = q.result /\ Ran(q, "sendResponse")
    /\ q.writes = <<>> => q.body = NoValue

\* C18: with two requests in flight whose process runs interleave at the
\* awaits, each handler receives the RequestData of its own request, each
\* response the status and headers of its own header hook, each result goes
\* to its own response, and a step of one request leaves the other as it was.
C18_RequestsAreIsolated ==
    /\ [](\A r \in DOMAIN req : OwnData(r))
    /\ [][\A r, s \in DOMAIN req :
             r # s => (req'[r] = req[r] \/ req'[s] = req[s])]_vars

C18_Witness ==
    /\ \A r \in DOMAIN req : req[r].ep = "e1" /\ req[r].pc = "awaitExecute"
    /\ req[1].status = 201 /\ req[2].status = 200
    /\ req[1].execArg = RequestData(1) /\ req[2].execArg = RequestData(2)

\* the next step of a request that is under way
RequestStep(r) ==
    \/ RunValidator(r) \/ RunAuthIfNeeded(r) \/ RunMiddleware(r)
    \/ Process(r) \/ HeadersSettled(r) \/ ExecuteSettled(r)
    \/ FileSendComplete(r) \/ StreamRelayComplete(r)

InFlight(q) ==
    q.pc \in {"route", "awaitHeaders", "awaitExecute", "sendingFile", "piping"}

\* a stage of the request failed: an error was forwarded, a FILE send or a
\* STREAM relay failed
Failed(q) ==
    q.forwarded # <<>> \/ q.resState = "failed" \/ q.relay = "error"

\* C19: the failure of one request, at whatever stage, a FILE send failure
\* and a STREAM relay failure included, does not keep another request in
\* flight from going on to its own outcome: the failure is forwarded through
\* next of the failing request or logged, and escapes as no unhandled error.
C19_FailuresAreContained ==
    \A r, s \in DOMAIN req :
        (r # s /\ Failed(req[r]) /\ InFlight(req[s])) =>
            /\ req[r].escaped = <<>>
            /\ ENABLED RequestStep(s)

\* C20: process changes the status and the headers of the response only
\* after the header hook succeeded. When it forwards an error for a
\* validation failure or a failed header hook, both are as they were when
\* process was entered; when it forwards one for a failed handler or
\* dispatch, those of the header hook are applied and stay applied.
C20_HeadersChangeOnlyAfterTheHook ==
    \A r \in DOMAIN req :
        LET q == req[r]
            early == q.verrs # <<>>
                       \/ (q.raised # <<>> /\ q.raised[1].by = "headers")
            late == (q.raised # <<>> /\ q.raised[1].by = "execute")
                       \/ Ran(q, "sendResponse")
        IN Ran(q, "process") =>
            /\ ~Ran(q, "setHeaders") =>
                  q.status = q.entry.status /\ q.headers = q.entry.headers
            /\ Ran(q, "setHeaders") =>
                  /\ q.status = q.envelope.status
                  /\ q.headers = q.entry.headers \cup q.envelope.headers
            /\ (ProcessForwards(q) = 1 /\ early) => ~Ran(q, "setHeaders")
            /\ (ProcessForwards(q) = 1 /\ late) => Ran(q, "setHeaders")
            /\ ProcessForwards(q) = 1 => early \/ late

C20_Witness ==
    \E r \in DOMAIN req :
        /\ ProcessForwards(req[r]) = 1
        /\ Ran(req[r], "sendResponse")
        /\ req[r].status = 201 /\ req[r].headers = {"x-total"}
        /\ req[r].entry = DefaultHeaders

====
